---- MODULE Spec2Model ----
(***************************************************************************)
(* ProToken / PT-DiT notebooks: token conversion (index_from_embedding,    *)
(* clamp_x0_fn), RePaint context construction (make_repaint_info) and the  *)
(* two run_infer sampling loops.                                           *)
(*                                                                         *)
(* Numbers.  float32 values are modelled as exact reals.  Embedding        *)
(* components lie on an integer grid (unit: one tenth).  The constant 1e-6 *)
(* of protoken_emb_distance_fn is kept symbolic: a denominator             *)
(* norm(v) + 1e-6 is the record [rad |-> |v|^2, eps |-> 1], denoting       *)
(* sqrt(rad) + eps * 1e-6, and a distance is the record                    *)
(* [num, dx, dy] denoting num / (dx * dy).  Comparisons of such reals are  *)
(* exact: 1e-6 is smaller than any difference of two grid values.          *)
(* Arrays are functions over 0..n-1; a vector (last axis) is a sequence.   *)
(***************************************************************************)
EXTENDS Integers, Sequences, FiniteSets, TLC

VARIABLES
    protoken_emb,   \* the ProToken codebook        (rows 0..n-1 of vectors)
    aatype_emb,     \* the amino-acid codebook      (rows 0..m-1 of vectors)
    x,              \* the embedding being converted / sampled, (Nres, DIM_EMB)
    seq_mask,       \* (Nres) booleans
    ret,            \* result of index_from_embedding, or NoResult
    x0,             \* result of clamp_x0_fn, or NoResult
    prev,           \* an earlier conversion: [x, ret, x0], or NoPrev
    aatypes,        \* make_repaint_info: amino-acid ids      (0..len-1)
    protokens,      \* make_repaint_info: ProToken ids        (0..len-1)
    aatype_context_ids,     \* residues whose amino acid is context
    protoken_context_ids,   \* residues whose ProToken is context
    repaint_context,        \* (seq_len, DIM_EMB), or None
    repaint_mask,           \* (seq_len, DIM_EMB), or None
    notebook,       \* which run_infer runs: "repaint" or "denovo"
    ti,             \* run_infer: outer loop index
    t,              \* run_infer: diffusion timestep
    eq_step,        \* run_infer: equilibrium step index
    denoise_fn,     \* run_infer: the denoiser bound to denoise_fn
    call,           \* the last denoising call made: [t, fn, final], or NoCall
    origin,         \* for every component of x, the operation that wrote it
    util,           \* the utility function being applied
    arg,            \* its argument
    out,            \* its result: [raised, value], or None
    back,           \* the result of converting out.value back, or None
    residue_index,  \* (Nres) integers
    data,           \* the loaded input: [seq_len, protokens, aatype, ...], or None
    input_dict,     \* RePaint notebook: [seq_mask, residue_index], or None
    repaint_dict,   \* RePaint notebook: [repaint_context, repaint_mask], or None
    all_seqs,       \* directed evolution: the pool (its indices)
    sample_ids,     \* directed evolution: pool indices sampled so far
    select_ids,     \* directed evolution: pool indices behind select_seqs
    X_train,        \* directed evolution: pool indices of the training pairs
    round,          \* directed evolution: r, the round
    BATCH_SIZE,     \* latent interpolation: number of samples
    pdb_list,       \* latent interpolation: the structure behind each sample
    xT,             \* latent interpolation: latent of each sample
    xT_interpolation,   \* latent interpolation: the interpolants
    module,         \* structure module: which instance runs
    layer,          \* structure module: IPA iteration under way (1-based)
    trace,          \* structure module: the steps performed so far
    pc              \* position of the running cell

embVars == <<protoken_emb, aatype_emb>>

convVars == <<x, seq_mask, ret, x0, prev>>

infoVars == <<aatypes, protokens, aatype_context_ids, protoken_context_ids>>

ctxVars == <<repaint_context, repaint_mask>>

loopVars == <<notebook, ti, t, eq_step, denoise_fn, call, origin>>

utilVars == <<util, arg, out, back>>

inputVars == <<residue_index, data, input_dict, repaint_dict>>

evoVars == <<all_seqs, sample_ids, select_ids, X_train, round>>

interpVars == <<BATCH_SIZE, pdb_list, xT, xT_interpolation>>

smVars == <<module, layer, trace>>

\* the state of the cells other than token conversion, RePaint and run_infer
extVars == <<utilVars, inputVars, evoVars, interpVars, smVars>>

vars == <<embVars, convVars, infoVars, ctxVars, loopVars, extVars, pc>>

\* ------------------------------------------------------------------ bounds

\* length of proteins (residue axis); 512 in the notebooks
NRES == 2

\* 500 in the notebooks
num_diffusion_timesteps == 3

\* 50 in the notebooks
n_eq_steps == 2

\* 250 in the notebooks
phasing_time == 2

\* ------------------------------------------------------------- array helpers

Len0(a) == Cardinality(DOMAIN a)

Range0(n) == 0 .. (n - 1)

NoResult == [none |-> TRUE]

\* sum_k x[k] * y[k]  (jnp.sum(x_ * y_, axis=-1) on the numerators)
Dot(u, v) ==
    LET s[k \in 0 .. Len(u)] == IF k = 0 THEN 0 ELSE s[k - 1] + u[k] * v[k]
    IN s[Len(u)]

\* sum_k (x[k] - y[k]) ** 2
SqDist(u, v) ==
    LET s[k \in 0 .. Len(u)] ==
            IF k = 0 THEN 0 ELSE s[k - 1] + (u[k] - v[k]) * (u[k] - v[k])
    IN s[Len(u)]

\* ------------------------------------------------------------------- reals

NaN == [nan |-> TRUE]

IsNaN(p) == "nan" \in DOMAIN p

\* the real 1
One == [rad |-> 1, eps |-> 0]

\* sqrt(rad) + eps * 1e-6 = 0
IsZeroDen(d) == d.rad = 0 /\ d.eps = 0

\* sqrt(n) for the integer norms of the codebook rows
Root(n) == CHOOSE r \in 0 .. n : r * r = n

\* p < q for two reals with the same dx (distances of one vector x to two
\* codebook rows).  With Dp = sqrt(p.dy.rad) + p.dy.eps*1e-6 > 0 (and Dq alike)
\* p < q  <=>  p.num * Dq - q.num * Dp < 0, a quantity a + b * 1e-6 with
\* integers a, b; its sign is that of a, or of b when a = 0.
Lt(p, q) ==
    LET a == p.num * Root(q.dy.rad) - q.num * Root(p.dy.rad)
        b == p.num * q.dy.eps - q.num * p.dy.eps
    IN  a < 0 \/ (a = 0 /\ b < 0)

\* ------------------------------------------------------- distance functions

\* the norm without the additive 1e-6
NormNoEps(v) == [rad |-> Dot(v, v), eps |-> 0]

\* jnp.linalg.norm(v, axis=-1, keepdims=True) + 1e-6
NormPlusEps(v) == [rad |-> Dot(v, v), eps |-> 1]

\* v / (norm(v) + 1e-6); 0/0 is NaN
Normalize(v) ==
    LET d == NormPlusEps(v)
    IN IF IsZeroDen(d) THEN NaN ELSE [vec |-> v, den |-> d]

\* the sum of products with the minus sign lost (a similarity, not a distance)
PosSumProd(a, b) ==
    IF IsNaN(a) \/ IsNaN(b) THEN NaN
    ELSE [num |-> Dot(a.vec, b.vec), dx |-> a.den, dy |-> b.den]

\* -jnp.sum(x_ * y_, axis=-1) for one pair of vectors
NegSumProd(a, b) ==
    IF IsNaN(a) \/ IsNaN(b) THEN NaN
    ELSE [num |-> 0 - Dot(a.vec, b.vec), dx |-> a.den, dy |-> b.den]

\* the negative dot product of the vectors as they are, neither normalised
protoken_emb_distance_fn_unnormalized(xs, ys) ==
    [i \in DOMAIN xs |->
        [j \in DOMAIN ys |->
            [num |-> 0 - Dot(xs[i], ys[j]), dx |-> One, dy |-> One]]]

\* x: (Nres, 1, D) broadcast against y: (1, n, D) -> (Nres, n)
protoken_emb_distance_fn(xs, ys) ==
    [i \in DOMAIN xs |->
        [j \in DOMAIN ys |-> NegSumProd(Normalize(xs[i]), Normalize(ys[j]))]]

aatype_emb_distance_fn(xs, ys) ==
    [i \in DOMAIN xs |->
        [j \in DOMAIN ys |-> [num |-> SqDist(xs[i], ys[j]), dx |-> One, dy |-> One]]]

\* ------------------------------------------------------------------ argmin

\* an argmin that keeps the last occurrence of the minimum
ArgMinRowLastTie(row) ==
    LET n == Len0(row)
        best[k \in Range0(n)] ==
            IF k = 0 THEN 0
            ELSE LET b == best[k - 1]
                 IN IF IsNaN(row[b]) THEN b
                    ELSE IF IsNaN(row[k]) THEN k
                    ELSE IF Lt(row[b], row[k]) THEN b ELSE k
    IN best[n - 1]

\* jnp.argmin over one row: the first occurrence of the minimum; a NaN counts
\* as the minimum.
ArgMinRow(row) ==
    LET n == Len0(row)
        best[k \in Range0(n)] ==
            IF k = 0 THEN 0
            ELSE LET b == best[k - 1]
                 IN IF IsNaN(row[b]) THEN b
                    ELSE IF IsNaN(row[k]) THEN k
                    ELSE IF Lt(row[k], row[b]) THEN k ELSE b
    IN best[n - 1]

\* jnp.argmin(d) with the axis argument forgotten: one index into the flattened
\* array, broadcast to every position
ArgMinFlat(d) ==
    LET n == Len0(d[0])
        flat == [k \in Range0(Len0(d) * n) |-> d[k \div n][k % n]]
    IN [i \in DOMAIN d |-> ArgMinRow(flat)]

\* jnp.argmin(d, axis=-1)
ArgMinLastAxis(d) == [i \in DOMAIN d |-> ArgMinRow(d[i])]

\* ---------------------------------------------------------------- indexing

\* arr[idx] on a jax array: a negative index counts from the end, and an index
\* out of bounds is clamped to the bounds of the array (no error is raised)
jnp_getitem(arr, idx) ==
    LET n == Len0(arr)
        i == IF idx < 0 THEN idx + n ELSE idx
    IN arr[IF i < 0 THEN 0 ELSE IF i > n - 1 THEN n - 1 ELSE i]

\* arr[ids] for an array of indexes
jnp_take(arr, ids) == [i \in DOMAIN ids |-> jnp_getitem(arr, ids[i])]

\* --------------------------------------------------------- token conversion

infer_protuple == TRUE

\* protoken_emb.shape[-1], aatype_emb.shape[-1]
DIM_EMB_PTK == Len(protoken_emb[0])

DIM_EMB_AA == Len(aatype_emb[0])

DIM_EMB == DIM_EMB_PTK + DIM_EMB_AA

\* x[..., :protoken_emb.shape[-1]]
PtkPart(e) == [i \in DOMAIN e |-> SubSeq(e[i], 1, DIM_EMB_PTK)]

\* x[..., protoken_emb.shape[-1]:]
AaPart(e) == [i \in DOMAIN e |-> SubSeq(e[i], DIM_EMB_PTK + 1, Len(e[i]))]

index_from_embedding(e) ==
    LET protoken_indexes ==
            ArgMinLastAxis(protoken_emb_distance_fn(PtkPart(e), protoken_emb))
        aatype_indexes ==
            ArgMinLastAxis(aatype_emb_distance_fn(AaPart(e), aatype_emb))
    IN IF infer_protuple
       THEN [protoken_indexes |-> protoken_indexes, aatype_indexes |-> aatype_indexes]
       ELSE [protoken_indexes |-> protoken_indexes]

clamp_x0_fn(e) ==
    LET protoken_indexes ==
            ArgMinLastAxis(protoken_emb_distance_fn(PtkPart(e), protoken_emb))
        aatype_indexes ==
            ArgMinLastAxis(aatype_emb_distance_fn(AaPart(e), aatype_emb))
        ptk == jnp_take(protoken_emb, protoken_indexes)
        aa == jnp_take(aatype_emb, aatype_indexes)
    IN IF infer_protuple
       THEN [i \in DOMAIN e |-> ptk[i] \o aa[i]]
       ELSE ptk

\* ----------------------------------------------------------- model inputs

\* the codebooks a run may have loaded (protoken_emb.pkl, aatype_emb.pkl)
Codebooks ==
    { [ptk |-> (0 :> <<10, 0>> @@ 1 :> <<-10, 0>>),
       aa  |-> (0 :> <<0>> @@ 1 :> <<10>>)],
      [ptk |-> (0 :> <<6, 8>> @@ 1 :> <<0, 10>> @@ 2 :> <<0, 10>>),
       aa  |-> (0 :> <<-5>> @@ 1 :> <<5>> @@ 2 :> <<5>>)],
      [ptk |-> (0 :> <<0, 0>> @@ 1 :> <<3, 4>> @@ 2 :> <<-3, -4>>),
       aa  |-> (0 :> <<0>> @@ 1 :> <<2>> @@ 2 :> <<-2>>)] }

\* the values one position of an embedding may take
XRows ==
    { <<9, 1, 0>>, <<-9, -1, 10>>, <<0, 0, 0>>, <<0, 10, 5>>, <<3, 4, -1>>,
      <<-6, 8, 4>> }

Embeddings == [Range0(NRES) -> XRows]

\* seq_mask of a protein of length n padded to NRES
MaskOfLen(n) == [i \in Range0(NRES) |-> i < n]

\* ----------------------------------------------- token conversion, as a system

NoPrev == [none |-> TRUE]

\* Python None
None == [none |-> TRUE]

\* no RePaint inputs loaded
NoRepaintInfo ==
    /\ aatypes = None
    /\ protokens = None
    /\ aatype_context_ids = {}
    /\ protoken_context_ids = {}
    /\ repaint_context = None
    /\ repaint_mask = None

NoCall == [none |-> TRUE]

\* no run_infer under way
NoLoop ==
    /\ notebook = ""
    /\ ti = 0
    /\ t = 0
    /\ eq_step = 0
    /\ denoise_fn = ""
    /\ call = NoCall
    /\ origin = None

\* no utility function applied
NoUtil ==
    /\ util = ""
    /\ arg = None
    /\ out = None
    /\ back = None

\* no directed-evolution simulation under way
NoEvo ==
    /\ all_seqs = {}
    /\ sample_ids = {}
    /\ select_ids = <<>>
    /\ X_train = <<>>
    /\ round = 0

\* no latent interpolation under way
NoInterp ==
    /\ BATCH_SIZE = 0
    /\ pdb_list = <<>>
    /\ xT = None
    /\ xT_interpolation = None

\* no structure module running
NoStructureModule ==
    /\ module = ""
    /\ layer = 0
    /\ trace = <<>>

\* none of the other cells has run
NoExt ==
    /\ NoUtil
    /\ residue_index = None
    /\ data = None
    /\ input_dict = None
    /\ repaint_dict = None
    /\ NoEvo
    /\ NoInterp
    /\ NoStructureModule

\* no conversion under way
NoConversion ==
    /\ ret = NoResult
    /\ x0 = NoResult
    /\ prev = NoPrev

InitConvert ==
    /\ \E cb \in Codebooks : protoken_emb = cb.ptk /\ aatype_emb = cb.aa
    /\ x \in Embeddings
    /\ \E n \in 0 .. NRES : seq_mask = MaskOfLen(n)
    /\ ret = NoResult
    /\ x0 = NoResult
    /\ prev = NoPrev
    /\ NoRepaintInfo
    /\ NoLoop
    /\ NoExt
    /\ pc = "convert"

IndexFromEmbedding ==
    /\ pc = "convert"
    /\ ret = NoResult
    /\ ret' = index_from_embedding(x)
    /\ UNCHANGED <<extVars, embVars, x, seq_mask, x0, prev, infoVars, ctxVars, loopVars, pc>>

ClampX0 ==
    /\ pc = "convert"
    /\ x0 = NoResult
    /\ x0' = clamp_x0_fn(x)
    /\ UNCHANGED <<extVars, embVars, x, seq_mask, ret, prev, infoVars, ctxVars, loopVars, pc>>

\* the same conversions on an embedding that differs on padding positions only
PerturbPadding ==
    /\ pc = "convert"
    /\ ret # NoResult
    /\ x0 # NoResult
    /\ prev = NoPrev
    /\ prev' = [x |-> x, ret |-> ret, x0 |-> x0]
    /\ \E e \in Embeddings :
        /\ \A i \in Range0(NRES) : seq_mask[i] => e[i] = x[i]
        /\ x' = e
    /\ ret' = NoResult
    /\ x0' = NoResult
    /\ UNCHANGED <<extVars, embVars, seq_mask, infoVars, ctxVars, loopVars, pc>>

NextConvert == IndexFromEmbedding \/ ClampX0 \/ PerturbPadding

SpecConvert == InitConvert /\ [][NextConvert]_vars

\* ------------------------------------------------------- make_repaint_info

\* [0,]*DIM_EMB_PTK + [1,]*DIM_EMB_AA if i in aatype_context_ids else [0,]*DIM_EMB
RepaintMaskAA(seq_len, ids) ==
    [i \in Range0(seq_len) |->
        [k \in 1 .. DIM_EMB |-> IF i \in ids THEN k > DIM_EMB_PTK ELSE FALSE]]

\* [1,]*DIM_EMB_PTK + [0,]*DIM_EMB_AA if i in protoken_context_ids else [0,]*DIM_EMB
RepaintMaskPTK(seq_len, ids) ==
    [i \in Range0(seq_len) |->
        [k \in 1 .. DIM_EMB |-> IF i \in ids THEN k <= DIM_EMB_PTK ELSE FALSE]]

\* np.logical_or(a, b)
LogicalOr(a, b) == [i \in DOMAIN a |-> [k \in DOMAIN a[i] |-> a[i][k] \/ b[i][k]]]

\* make_repaint_info with the two context id lists taken for each other
make_repaint_info_swapped(aa, ptk, aa_ids, ptk_ids) ==
    LET protoken_context == jnp_take(protoken_emb, ptk)
        aatype_context == jnp_take(aatype_emb, aa)
        seq_len == Len0(protoken_context)
    IN IF Len0(protoken_context) # Len0(aatype_context)
       THEN [raised |-> "AssertionError"]
       ELSE [raised |-> "",
             repaint_context |->
                [i \in Range0(seq_len) |-> protoken_context[i] \o aatype_context[i]],
             repaint_mask |->
                LogicalOr(RepaintMaskAA(seq_len, ptk_ids),
                          RepaintMaskPTK(seq_len, aa_ids))]

\* make_repaint_info without the assertion, the longer input cut to the shorter
make_repaint_info_truncating(aa, ptk, aa_ids, ptk_ids) ==
    LET protoken_context == jnp_take(protoken_emb, ptk)
        aatype_context == jnp_take(aatype_emb, aa)
        seq_len == IF Len0(aatype_context) < Len0(protoken_context)
                   THEN Len0(aatype_context) ELSE Len0(protoken_context)
    IN [raised |-> "",
        repaint_context |->
            [i \in Range0(seq_len) |-> protoken_context[i] \o aatype_context[i]],
        repaint_mask |->
            LogicalOr(RepaintMaskAA(seq_len, aa_ids),
                      RepaintMaskPTK(seq_len, ptk_ids))]

\* the value returned, or the exception raised
make_repaint_info(aa, ptk, aa_ids, ptk_ids) ==
    LET protoken_context == jnp_take(protoken_emb, ptk)
        aatype_context == jnp_take(aatype_emb, aa)
        seq_len == Len0(protoken_context)
    IN IF Len0(protoken_context) # Len0(aatype_context)
       THEN [raised |-> "AssertionError"]
       ELSE [raised |-> "",
             repaint_context |->
                [i \in Range0(seq_len) |-> protoken_context[i] \o aatype_context[i]],
             repaint_mask |->
                LogicalOr(RepaintMaskAA(seq_len, aa_ids),
                          RepaintMaskPTK(seq_len, ptk_ids))]

\* ProToken ids a caller may pass: valid ones, -1 and one past every codebook
ProtokenIds == {-1, 0, 1, 3}

\* amino-acid ids a caller may pass
AatypeIds == {0, 1, 2}

\* id arrays of length n
IdArrays(ids, n) == [Range0(n) -> ids]

\* context_resids lists: none, all residues, the first, the last and one
\* beyond the protein
ContextIdSets == { {}, Range0(NRES), {0}, {NRES - 1, NRES + 3} }

InitRepaintInfo ==
    /\ \E cb \in Codebooks : protoken_emb = cb.ptk /\ aatype_emb = cb.aa
    /\ \E n \in 1 .. NRES :
        /\ protokens \in IdArrays(ProtokenIds, n)
        /\ \E m \in {n - 1, n} : aatypes \in IdArrays(AatypeIds, m)
        /\ seq_mask = MaskOfLen(n)
    /\ aatype_context_ids \in ContextIdSets
    /\ protoken_context_ids \in ContextIdSets
    /\ repaint_context = None
    /\ repaint_mask = None
    /\ x = None
    /\ NoConversion
    /\ NoLoop
    /\ NoExt
    /\ pc = "make_repaint_info"

MakeRepaintInfo ==
    /\ pc = "make_repaint_info"
    /\ LET r == make_repaint_info(aatypes, protokens,
                                  aatype_context_ids, protoken_context_ids)
       IN IF r.raised # ""
          THEN /\ pc' = r.raised
               /\ UNCHANGED ctxVars
          ELSE /\ repaint_context' = r.repaint_context
               /\ repaint_mask' = r.repaint_mask
               /\ pc' = "made"
    /\ UNCHANGED <<extVars, embVars, convVars, infoVars, loopVars>>

NextRepaintInfo == MakeRepaintInfo

SpecRepaintInfo == InitRepaintInfo /\ [][NextRepaintInfo]_vars

\* ------------------------------------------------------------ run_infer
\* One sample of the batch is modelled: every function of the loop acts on
\* each sample (and device) separately.  The network (jit_apply_fn) and the
\* Gaussian noise are free inputs, so a denoising call, noise_step and q_sample
\* may return any embedding; clamp_x0_fn enters a clamped denoising call only
\* through the mean of that Gaussian.

\* np.arange(num_diffusion_timesteps), the default of repaint_time_steps
repaint_time_steps == 0 .. (num_diffusion_timesteps - 1)

\* the values one position of x may take during sampling
InferRows == { p \o a : p \in {<<9, 1>>, <<-9, -1>>}, a \in {<<0>>, <<4>>} }

InferEmbeddings == [Range0(NRES) -> InferRows]

\* np.pad(a, ((0, NRES - len(a)), (0, 0))) of one sample
PadRows(a, width) ==
    [i \in Range0(NRES) |->
        IF i \in DOMAIN a THEN a[i] ELSE [k \in 1 .. width |-> 0]]

\* repaint_mask.astype(np.float32)
AsFloat(m) == [i \in DOMAIN m |-> [k \in DOMAIN m[i] |-> IF m[i][k] THEN 1 ELSE 0]]

\* repaint_mask_ * repaint_context_t + (1 - repaint_mask_) * x
Mix(m, c, e) ==
    [i \in DOMAIN e |->
        [k \in DOMAIN e[i] |-> m[i][k] * c[i][k] + (1 - m[i][k]) * e[i][k]]]

\* every component written by operation op at timestep lvl
Written(op, lvl) ==
    [i \in Range0(NRES) |-> [k \in 1 .. DIM_EMB |-> [op |-> op, t |-> lvl]]]

\* the RePaint inputs of the notebook cells: inverse folding (every ProToken
\* is context, no amino acid is), CDR-like (residue 0 is context in both
\* modalities), or no context at all
RepaintSetups(n) ==
    { [aa_ids |-> {}, ptk_ids |-> Range0(n), use |-> TRUE],
      [aa_ids |-> {0}, ptk_ids |-> {0}, use |-> TRUE],
      [aa_ids |-> {}, ptk_ids |-> {}, use |-> FALSE] }

InitInfer ==
    /\ \E cb \in Codebooks : protoken_emb = cb.ptk /\ aatype_emb = cb.aa
    /\ notebook \in {"repaint", "denovo"}
    /\ IF notebook = "denovo"
       THEN /\ seq_mask = MaskOfLen(NRES)
            /\ NoRepaintInfo
       ELSE \E n \in {NRES - 1, NRES}, id \in {0, 1} : \E su \in RepaintSetups(n) :
            /\ seq_mask = MaskOfLen(n)
            /\ protokens = [i \in Range0(n) |-> id]
            /\ aatypes = [i \in Range0(n) |-> 0]
            /\ aatype_context_ids = su.aa_ids
            /\ protoken_context_ids = su.ptk_ids
            /\ LET r == make_repaint_info(aatypes, protokens, su.aa_ids, su.ptk_ids)
               IN IF su.use
                  THEN /\ repaint_context = PadRows(r.repaint_context, DIM_EMB)
                       /\ repaint_mask = PadRows(AsFloat(r.repaint_mask), DIM_EMB)
                  ELSE /\ repaint_context = None
                       /\ repaint_mask = None
    /\ x \in InferEmbeddings
    /\ origin = Written("normal", num_diffusion_timesteps)
    /\ NoConversion
    /\ ti = 0
    /\ t = 0
    /\ eq_step = 0
    /\ denoise_fn = ""
    /\ call = NoCall
    /\ NoExt
    /\ pc = "timestep"

\* RePaint notebook:
\* pjit_denoise_step if t > phasing_time else pjit_denoise_step_clamped
PhasedDenoiserRepaint(lvl) ==
    IF lvl > phasing_time THEN "pjit_denoise_step" ELSE "pjit_denoise_step_clamped"

\* de-novo notebook:
\* pjit_denoise_step_clamped if t < phasing_time else pjit_denoise_step
PhasedDenoiserDeNovo(lvl) ==
    IF lvl < phasing_time THEN "pjit_denoise_step_clamped" ELSE "pjit_denoise_step"

\* for ti in range(num_diffusion_timesteps): t = num_diffusion_timesteps - ti
\* (de novo: denoise_fn is chosen here)
BeginTimestep ==
    /\ pc = "timestep"
    /\ IF ti < num_diffusion_timesteps
       THEN /\ t' = num_diffusion_timesteps - ti
            /\ denoise_fn' =
                 IF notebook = "denovo"
                 THEN PhasedDenoiserDeNovo(t')
                 ELSE denoise_fn
            /\ eq_step' = 0
            /\ pc' = IF n_eq_steps > 0 THEN "denoise" ELSE "final"
       ELSE /\ pc' = "return"
            /\ UNCHANGED <<t, denoise_fn, eq_step>>
    /\ UNCHANGED <<extVars, embVars, convVars, infoVars, ctxVars, notebook, ti, call, origin>>

\* x, rng_keys = fn(params, x, seq_mask, t, residue_index, rng_keys)
DenoiseCall(fn, final) ==
    /\ x' \in InferEmbeddings
    /\ call' = [t |-> t, fn |-> fn, final |-> final]
    /\ origin' = Written("denoise", t)

\* next position after one equilibrium step
AfterEqStep == IF eq_step + 1 < n_eq_steps THEN "denoise" ELSE "final"

\* RePaint notebook, in the eq_step loop: denoise_fn is chosen and called
DenoiseEqRepaint ==
    /\ pc = "denoise"
    /\ notebook = "repaint"
    /\ denoise_fn' = PhasedDenoiserRepaint(t)
    /\ DenoiseCall(denoise_fn', FALSE)
    /\ pc' = "noise"
    /\ UNCHANGED <<extVars, embVars, seq_mask, ret, x0, prev, infoVars, ctxVars,
                   notebook, ti, t, eq_step>>

\* de-novo notebook, in the eq_step loop
DenoiseEqDeNovo ==
    /\ pc = "denoise"
    /\ notebook = "denovo"
    /\ DenoiseCall(denoise_fn, FALSE)
    /\ pc' = "noise"
    /\ UNCHANGED <<extVars, embVars, seq_mask, ret, x0, prev, infoVars, ctxVars,
                   notebook, ti, t, eq_step, denoise_fn>>

\* x, rng_keys = pjit_noise_step(x, t, rng_keys)
NoiseStep ==
    /\ pc = "noise"
    /\ x' \in InferEmbeddings
    /\ origin' = Written("noise", t)
    /\ IF notebook = "repaint"
       THEN pc' = "repaint" /\ UNCHANGED eq_step
       ELSE pc' = AfterEqStep /\ eq_step' = eq_step + 1
    /\ UNCHANGED <<extVars, embVars, seq_mask, ret, x0, prev, infoVars, ctxVars,
                   notebook, ti, t, denoise_fn, call>>

\* if repaint_context is not None and t in repaint_time_steps: ...
\* (the context and the mask have the rank of x)
Repaint ==
    /\ pc = "repaint"
    /\ IF repaint_context # None /\ t \in repaint_time_steps
       THEN \E repaint_context_t \in InferEmbeddings :
            /\ x' = Mix(repaint_mask, repaint_context_t, x)
            /\ origin' = [i \in Range0(NRES) |-> [k \in 1 .. DIM_EMB |->
                            IF repaint_mask[i][k] = 1
                            THEN [op |-> "q_sample", t |-> t]
                            ELSE origin[i][k]]]
       ELSE UNCHANGED <<x, origin>>
    /\ eq_step' = eq_step + 1
    /\ pc' = AfterEqStep
    /\ UNCHANGED <<extVars, embVars, seq_mask, ret, x0, prev, infoVars, ctxVars,
                   notebook, ti, t, denoise_fn, call>>

\* RePaint notebook, after the eq_step loop: x, rng_keys = denoise_fn(...)
DenoiseFinalRepaint ==
    /\ pc = "final"
    /\ notebook = "repaint"
    /\ IF denoise_fn = ""
       THEN pc' = "UnboundLocalError" /\ UNCHANGED <<x, call, origin, ti>>
       ELSE /\ DenoiseCall(denoise_fn, TRUE)
            /\ ti' = ti + 1
            /\ pc' = "timestep"
    /\ UNCHANGED <<extVars, embVars, seq_mask, ret, x0, prev, infoVars, ctxVars,
                   notebook, t, eq_step, denoise_fn>>

\* de-novo notebook, after the eq_step loop: x, rng_keys = pjit_denoise_step(...)
DenoiseFinalDeNovo ==
    /\ pc = "final"
    /\ notebook = "denovo"
    /\ DenoiseCall("pjit_denoise_step", TRUE)
    /\ ti' = ti + 1
    /\ pc' = "timestep"
    /\ UNCHANGED <<extVars, embVars, seq_mask, ret, x0, prev, infoVars, ctxVars,
                   notebook, t, eq_step, denoise_fn>>

\* ret.update(pjit_index_from_embedding(x)); return ret
Return ==
    /\ pc = "return"
    /\ ret' = index_from_embedding(x)
    /\ pc' = "done"
    /\ UNCHANGED <<extVars, embVars, x, seq_mask, x0, prev, infoVars, ctxVars, loopVars>>

NextInfer ==
    \/ BeginTimestep
    \/ DenoiseEqRepaint
    \/ DenoiseEqDeNovo
    \/ NoiseStep
    \/ Repaint
    \/ DenoiseFinalRepaint
    \/ DenoiseFinalDeNovo
    \/ Return

SpecInfer == InitInfer /\ [][NextInfer]_vars

\* ------------------------------------------------- inputs handed to PT-DiT
\* The residue axis of one sample; the batch and device axes are copies.
\* NRES above is the padded length used by the model; the notebooks set:

\* the number of proteins in each GPU device
NSAMPLE_PER_DEVICE == 8

\* most GPU devices considered
MaxDevices == 2

\* len(jax.devices()), of which BATCH_SIZE = NSAMPLE_PER_DEVICE * NDEVICES
NDEVICES == BATCH_SIZE \div NSAMPLE_PER_DEVICE

\* NRES of the RePaint notebook
NRES_repaint == 512

\* NRES of the latent-space notebook
NRES_latent == 512

\* NRES of the de novo design notebook
NRES_denovo == 256

\* np.pad of axis 0 by (0, after + 1)
np_pad_one_more(a, after, zero) ==
    IF after < 0
    THEN [raised |-> "ValueError"]
    ELSE [raised |-> "",
          value |-> [i \in Range0(Len0(a) + after + 1) |->
                        IF i \in DOMAIN a THEN a[i] ELSE zero]]

\* np.pad that cuts axis 0 to the requested length when the width is negative
np_pad_truncating(a, after, zero) ==
    [raised |-> "",
     value |-> [i \in Range0(Len0(a) + after) |->
                   IF i \in DOMAIN a THEN a[i] ELSE zero]]

\* np.pad(a, ((0, after),) + ((0, 0),) * ...): zeros appended along axis 0;
\* a negative pad width raises ValueError
np_pad(a, after, zero) ==
    IF after < 0
    THEN [raised |-> "ValueError"]
    ELSE [raised |-> "",
          value |-> [i \in Range0(Len0(a) + after) |->
                        IF i \in DOMAIN a THEN a[i] ELSE zero]]

\* np.arange(n)
np_arange(n) == [i \in Range0(n) |-> i]

\* np.ones(n, dtype=np.bool_)
np_ones(n) == [i \in Range0(n) |-> TRUE]

\* a zero row of an array of rows of the width of x
ZeroRow == [k \in 1 .. DIM_EMB |-> 0]

\* the pickles written by the ProToken encoder for a protein of n residues
\* (per-residue arrays of length seq_len)
GeneratorInputs(n) ==
    { [seq_len |-> n,
       protokens |-> [i \in Range0(n) |-> id],
       aatype |-> [i \in Range0(n) |-> aa],
       seq_mask |-> np_ones(n),
       residue_index |-> [i \in Range0(n) |-> i + gap]] :
      id \in {0, 1}, aa \in {0, 1}, gap \in {0, 5} }

\* jax.random.normal(key, (NRES, DIM_EMB)) of one sample
InitialNoise == { e \in InferEmbeddings : \A i \in Range0(NRES) : e[i] = e[0] }

InitInputs ==
    /\ \E cb \in Codebooks : protoken_emb = cb.ptk /\ aatype_emb = cb.aa
    /\ notebook \in {"repaint", "latent", "denovo"}
    /\ IF notebook = "denovo"
       THEN data = None
       ELSE \E n \in 1 .. (NRES + 1) : data \in GeneratorInputs(n)
    /\ IF notebook = "repaint"
       THEN \E ids \in ContextIdSets :
                aatype_context_ids = ids /\ protoken_context_ids \in {ids, Range0(NRES)}
       ELSE aatype_context_ids = {} /\ protoken_context_ids = {}
    /\ aatypes = None
    /\ protokens = None
    /\ repaint_context = None
    /\ repaint_mask = None
    /\ x = None
    /\ seq_mask = None
    /\ residue_index = None
    /\ input_dict = None
    /\ repaint_dict = None
    /\ NoConversion
    /\ ti = 0
    /\ t = 0
    /\ eq_step = 0
    /\ denoise_fn = ""
    /\ call = NoCall
    /\ origin = None
    /\ NoUtil
    /\ NoEvo
    /\ \E devices \in 1 .. MaxDevices : BATCH_SIZE = NSAMPLE_PER_DEVICE * devices
    /\ pdb_list = <<>>
    /\ xT = None
    /\ xT_interpolation = None
    /\ NoStructureModule
    /\ pc = "load"

\* RePaint notebook, "load context" and make_repaint_info
LoadContext ==
    /\ pc = "load"
    /\ notebook = "repaint"
    /\ protokens' = data.protokens
    /\ aatypes' = data.aatype
    /\ seq_mask' = np_ones(Len0(data.protokens))
    /\ residue_index' = np_arange(Len0(data.protokens))
    /\ input_dict' = [seq_mask |-> seq_mask', residue_index |-> residue_index']
    /\ LET info == make_repaint_info(data.aatype, data.protokens,
                                     aatype_context_ids, protoken_context_ids)
       IN /\ repaint_context' = info.repaint_context
          /\ repaint_mask' = AsFloat(info.repaint_mask)
    /\ repaint_dict' = [repaint_context |-> repaint_context',
                        repaint_mask |-> repaint_mask']
    /\ pc' = "preprocess"
    /\ UNCHANGED <<embVars, x, ret, x0, prev, aatype_context_ids,
                   protoken_context_ids, loopVars, utilVars, data, evoVars,
                   interpVars, smVars>>

\* np.repeat(a, reps, axis=0) laid out as reps copies: every row repeated
\* reps times in place
np_repeat(a, reps) ==
    [b \in Range0(reps) |->
        [i \in DOMAIN a |-> a[(b * Len0(a) + i) \div reps]]]

\* np.tile(a[None, ...], (reps,) + (1,) * len(a.shape)): reps copies of a
\* along a new leading axis
np_tile(a, reps) == [b \in Range0(reps) |-> a]

\* a.reshape(rows, cols, *a.shape[1:]) of a with rows * cols leading entries
\* (row-major)
np_reshape(a, rows, cols) ==
    [d \in Range0(rows) |-> [s \in Range0(cols) |-> a[d * cols + s]]]

\* reshape_tile_pad_x(x), x an array with rows of value zero when padded
reshape_tile_pad_x(a, zero) ==
    LET padded == np_pad(a, NRES - Len0(a), zero)
    IN IF padded.raised # ""
       THEN padded
       ELSE [raised |-> "",
             value |-> np_reshape(np_tile(padded.value, BATCH_SIZE),
                                  NDEVICES, NSAMPLE_PER_DEVICE)]

\* RePaint notebook, "preprocessing inputs": reshape_tile_pad_x on every array
\* of input_dict and of repaint_dict; seq_mask, residue_index, repaint_context,
\* repaint_mask and x follow one sample of the batch
ReshapeTilePad ==
    /\ pc = "preprocess"
    /\ LET m == reshape_tile_pad_x(input_dict.seq_mask, FALSE)
           ri == reshape_tile_pad_x(input_dict.residue_index, 0)
           c == reshape_tile_pad_x(repaint_dict.repaint_context, ZeroRow)
           k == reshape_tile_pad_x(repaint_dict.repaint_mask, ZeroRow)
       IN IF m.raised # ""
          THEN /\ pc' = m.raised
               /\ UNCHANGED <<x, seq_mask, residue_index, ctxVars, input_dict,
                              repaint_dict>>
          ELSE /\ input_dict' = [seq_mask |-> m.value, residue_index |-> ri.value]
               /\ repaint_dict' = [repaint_context |-> c.value,
                                   repaint_mask |-> k.value]
               /\ seq_mask' = m.value[0][0]
               /\ residue_index' = ri.value[0][0]
               /\ repaint_context' = c.value[0][0]
               /\ repaint_mask' = k.value[0][0]
               /\ x' \in InitialNoise
               /\ pc' = "ready"
    /\ UNCHANGED <<embVars, ret, x0, prev, infoVars, loopVars, utilVars, data,
                   evoVars, interpVars, smVars>>

\* latent-space notebook, "concat sequence and structure embeddings"
ConcatEmbeddings ==
    /\ pc = "load"
    /\ notebook = "latent"
    /\ LET ptk == jnp_take(protoken_emb, data.protokens)
           aa == jnp_take(aatype_emb, data.aatype)
           embedding == [i \in DOMAIN ptk |-> ptk[i] \o aa[i]]
           e == np_pad(embedding, NRES - data.seq_len, ZeroRow)
           m == np_pad(data.seq_mask, NRES - data.seq_len, FALSE)
           ri == np_pad(data.residue_index, NRES - data.seq_len, 0)
       IN IF e.raised # ""
          THEN /\ pc' = e.raised
               /\ UNCHANGED <<x, seq_mask, residue_index>>
          ELSE /\ x' = e.value
               /\ seq_mask' = m.value
               /\ residue_index' = ri.value
               /\ pc' = "ready"
    /\ UNCHANGED <<embVars, ret, x0, prev, infoVars, ctxVars, loopVars, utilVars,
                   data, input_dict, repaint_dict, evoVars, interpVars, smVars>>

\* de novo notebook: x, seq_mask and residue_index are built at length NRES
DeNovoInputs ==
    /\ pc = "load"
    /\ notebook = "denovo"
    /\ x' \in InitialNoise
    /\ seq_mask' = np_ones(NRES)
    /\ residue_index' = np_arange(NRES)
    /\ pc' = "ready"
    /\ UNCHANGED <<embVars, ret, x0, prev, infoVars, ctxVars, loopVars, utilVars,
                   data, input_dict, repaint_dict, evoVars, interpVars, smVars>>

NextInputs == LoadContext \/ ReshapeTilePad \/ ConcatEmbeddings \/ DeNovoInputs

SpecInputs == InitInputs /\ [][NextInputs]_vars

\* ---------------------------------------------------------- function utils
\* Python lists and strings are sequences (a string is a sequence of
\* one-letter strings); a dict is the sequence of its items [k, v] in
\* insertion order; numpy arrays are functions over 0..n-1.

\* longest list, string or array the utilities are applied to
MaxLen == 2

\* token conversion, RePaint and run_infer are not running
NoCore ==
    /\ protoken_emb = None
    /\ aatype_emb = None
    /\ x = None
    /\ seq_mask = None
    /\ NoConversion
    /\ NoRepaintInfo
    /\ NoLoop
    /\ residue_index = None
    /\ data = None
    /\ input_dict = None
    /\ repaint_dict = None

\* a call that returned v
Returned(v) == [raised |-> "", value |-> v]

\* a call that raised exception e
Raised(e) == [raised |-> e]

\* sequences over S of length lo..hi
SeqsOf(S, lo, hi) == UNION { [1 .. n -> S] : n \in lo .. hi }

\* np.array(list)
np_array(l) == [i \in Range0(Len(l)) |-> l[i + 1]]

\* reduce(lambda x, y: y + x, lists, [])
reduce_concat_swapped(lists) ==
    LET RECURSIVE go(_)
        go(n) == IF n = 0 THEN <<>> ELSE lists[n] \o go(n - 1)
    IN go(Len(lists))

\* reduce(lambda x, y: x + y, lists, [])
reduce_concat(lists) ==
    LET RECURSIVE go(_)
        go(n) == IF n = 0 THEN <<>> ELSE go(n - 1) \o lists[n]
    IN go(Len(lists))

\* [{k: v[i] for k, v in d.items()} for i in range(len(next(iter(d.values()))))]
FlattenDict(d) ==
    IF Len(d) = 0
    THEN Raised("StopIteration")
    ELSE LET n == Len(d[1].v)
         IN IF \E e \in 1 .. Len(d) : Len(d[e].v) < n
            THEN Raised("IndexError")
            ELSE Returned([i \in 1 .. n |->
                            [e \in 1 .. Len(d) |-> [k |-> d[e].k, v |-> d[e].v[i]]]])

flatten_list_of_dicts(list_of_dicts) ==
    LET flattened_lists == [j \in 1 .. Len(list_of_dicts) |-> FlattenDict(list_of_dicts[j])]
        failed == { j \in 1 .. Len(list_of_dicts) : flattened_lists[j].raised # "" }
    IN IF failed # {}
       THEN Raised(flattened_lists[CHOOSE j \in failed : \A m \in failed : j <= m].raised)
       ELSE Returned(reduce_concat([j \in 1 .. Len(list_of_dicts) |-> flattened_lists[j].value]))

\* the list with 'A' typed twice
restypes_duplicate ==
    << "A", "A", "N", "D", "C", "Q", "E", "G", "H", "I", "L", "K", "M", "F", "P",
       "S", "T", "W", "Y", "V" >>

restypes ==
    << "A", "R", "N", "D", "C", "Q", "E", "G", "H", "I", "L", "K", "M", "F", "P",
       "S", "T", "W", "Y", "V" >>

\* l[i] of a Python list: a negative index counts from the end
list_getitem(l, i) ==
    IF i >= Len(l) \/ i < -Len(l)
    THEN Raised("IndexError")
    ELSE Returned(l[(IF i < 0 THEN i + Len(l) ELSE i) + 1])

\* l.index(a): the first position of a
list_index(l, a) ==
    LET hits == { i \in 1 .. Len(l) : l[i] = a }
    IN IF hits = {}
       THEN Raised("ValueError")
       ELSE Returned((CHOOSE i \in hits : \A j \in hits : i <= j) - 1)

\* "".join([restypes[int(i)] for i in aatype_index])
aatype_index_to_resname(aatype_index) ==
    LET names == [i \in DOMAIN aatype_index |-> list_getitem(restypes, aatype_index[i])]
    IN IF \E i \in DOMAIN names : names[i].raised # ""
       THEN Raised("IndexError")
       ELSE Returned([i \in 1 .. Len0(aatype_index) |-> names[i - 1].value])

\* np.array([restypes.index(a) for a in resnames], dtype=np.int32)
resname_to_aatype_index(resnames) ==
    LET ids == [i \in 1 .. Len(resnames) |-> list_index(restypes, resnames[i])]
    IN IF \E i \in 1 .. Len(resnames) : ids[i].raised # ""
       THEN Raised("ValueError")
       ELSE Returned(np_array([i \in 1 .. Len(resnames) |-> ids[i].value]))

\* the start positions (0-based) at which v occurs in s
Occurrences(s, v) ==
    { i \in 0 .. (Len(s) - Len(v)) : SubSeq(s, i + 1, i + Len(v)) = v }

\* s.rfind(v): the highest position, or -1
str_rfind(s, v) ==
    LET occ == Occurrences(s, v)
    IN IF occ = {} THEN -1 ELSE CHOOSE i \in occ : \A j \in occ : j <= i

\* s.find(v): the lowest position at which v occurs in s, or -1
str_find(s, v) ==
    LET occ == Occurrences(s, v)
    IN IF occ = {} THEN -1 ELSE CHOOSE i \in occ : \A j \in occ : i <= j

\* np.arange(start, stop)
np_arange2(start, stop) == [i \in Range0(stop - start) |-> start + i]

\* annotation_dict is the dict read from annotation_file; the result is the
\* dict of its keys in order, or the exception raised
parse_annotation(annotation_dict, aatype_indexes) ==
    LET seq_str == aatype_index_to_resname(aatype_indexes)
    IN IF seq_str.raised # ""
       THEN seq_str
       ELSE IF \E e \in 1 .. Len(annotation_dict) :
                    str_find(seq_str.value, annotation_dict[e].v) = -1
            THEN Raised("ValueError")
            ELSE Returned(
                    [e \in 1 .. Len(annotation_dict) |->
                        LET start_id == str_find(seq_str.value, annotation_dict[e].v)
                            end_id == start_id + Len(annotation_dict[e].v)
                        IN [k |-> annotation_dict[e].k,
                            v |-> np_arange2(start_id, end_id)]])

\* amino-acid type indexes a caller may pass: the 22 types and -1
AatypeIndexes == -1 .. 21

\* residue symbols a caller may pass: the 20 letters, unknown and gap
ResidueSymbols == { restypes[i] : i \in 1 .. Len(restypes) } \cup {"X", "-"}

\* the values of a dict handed to flatten_list_of_dicts
ListValues == SeqsOf({1, 2}, 0, MaxLen)

\* dicts with keys a, b (in this order)
ListDicts ==
    {<<>>} \cup { <<[k |-> "a", v |-> va]>> : va \in ListValues }
           \cup { <<[k |-> "a", v |-> va], [k |-> "b", v |-> vb]>> :
                    va \in ListValues, vb \in ListValues }

\* annotated regions: substrings over two letters, and one with another letter
Regions == SeqsOf({"A", "R"}, 0, MaxLen) \cup {<<"N">>}

\* annotation files of one or two entries
AnnotationDicts ==
    { <<[k |-> "H-CDR3", v |-> v3]>> : v3 \in Regions }
        \cup { <<[k |-> "H-CDR1", v |-> v1], [k |-> "H-CDR3", v |-> v3]>> :
                 v1 \in Regions, v3 \in Regions }

\* a utility call and its argument
UtilCalls ==
    { [util |-> "flatten_list_of_dicts", arg |-> l] :
        l \in {<<>>} \cup { <<d>> : d \in ListDicts }
                     \cup { <<d, e>> : d \in ListDicts,
                                       e \in { f \in ListDicts : Len(f) <= 1 } } }
        \cup { [util |-> "aatype_index_to_resname", arg |-> np_array(l)] :
                 l \in SeqsOf(AatypeIndexes, 0, MaxLen) }
        \cup { [util |-> "resname_to_aatype_index", arg |-> l] :
                 l \in SeqsOf(ResidueSymbols, 0, MaxLen) }
        \cup { [util |-> "parse_annotation",
                arg |-> [annotation_dict |-> d, aatype_indexes |-> np_array(l)]] :
                 d \in AnnotationDicts, l \in SeqsOf({0, 1}, 0, MaxLen + 2) }

InitUtils ==
    /\ NoCore
    /\ aatype_context_ids = {}
    /\ protoken_context_ids = {}
    /\ \E c \in UtilCalls : util = c.util /\ arg = c.arg
    /\ out = None
    /\ back = None
    /\ NoEvo
    /\ NoInterp
    /\ NoStructureModule
    /\ pc = "call"

UtilUnchanged ==
    UNCHANGED <<embVars, convVars, infoVars, ctxVars, loopVars, util, arg,
                inputVars, evoVars, interpVars, smVars>>

FlattenListOfDicts ==
    /\ pc = "call"
    /\ util = "flatten_list_of_dicts"
    /\ out' = flatten_list_of_dicts(arg)
    /\ pc' = "returned"
    /\ UNCHANGED back
    /\ UtilUnchanged

AatypeIndexToResname ==
    /\ pc = "call"
    /\ util = "aatype_index_to_resname"
    /\ out' = aatype_index_to_resname(arg)
    /\ pc' = "returned"
    /\ UNCHANGED back
    /\ UtilUnchanged

ResnameToAatypeIndex ==
    /\ pc = "call"
    /\ util = "resname_to_aatype_index"
    /\ out' = resname_to_aatype_index(arg)
    /\ pc' = "returned"
    /\ UNCHANGED back
    /\ UtilUnchanged

ParseAnnotation ==
    /\ pc = "call"
    /\ util = "parse_annotation"
    /\ out' = parse_annotation(arg.annotation_dict, arg.aatype_indexes)
    /\ pc' = "returned"
    /\ UNCHANGED back
    /\ UtilUnchanged

\* the result of one conversion handed to the other one
ConvertBack ==
    /\ pc = "returned"
    /\ util \in {"aatype_index_to_resname", "resname_to_aatype_index"}
    /\ out.raised = ""
    /\ back' = IF util = "aatype_index_to_resname"
               THEN resname_to_aatype_index(out.value)
               ELSE aatype_index_to_resname(out.value)
    /\ pc' = "converted"
    /\ UNCHANGED out
    /\ UtilUnchanged

NextUtils ==
    \/ FlattenListOfDicts
    \/ AatypeIndexToResname
    \/ ResnameToAatypeIndex
    \/ ParseAnnotation
    \/ ConvertBack

SpecUtils == InitUtils /\ [][NextUtils]_vars

\* ------------------------------------------- (simulated) directed evolution
\* One simulation (one seed).  X_train is followed by the pool indexes whose
\* representations it holds; y_train grows with it.  The regressor is a free
\* input: predict_y may rank the pool in any order.

\* len(all_seqs); at least N_TOP_SEQS
PoolSize == 5

\* 10 in the notebook
NROUND == 2

\* 10 in the notebook
N_SAMPLE_PER_ROUND == 2

\* 10 in the notebook
N_TOP_SEQS == 2

\* the elements of a list
Elems(l) == { l[i] : i \in 1 .. Len(l) }

\* the lists that enumerate set S once each (iteration over a set)
Orderings(S) ==
    { l \in [1 .. Cardinality(S) -> S] : Elems(l) = S }

\* np.argsort(predict_y)[::-1]: some permutation of the pool indexes
ArgSorts == { [i \in 1 .. PoolSize |-> p[i - 1]] : p \in Permutations(Range0(PoolSize)) }

\* the selection loop without the test 'not idx in sample_ids'
SelectTopUnfiltered(top_n_idx, sampled) ==
    SubSeq(top_n_idx, 1, N_SAMPLE_PER_ROUND)

\* for idx in top_n_idx: if not idx in sample_ids: ...; if count == N_SAMPLE_PER_ROUND: break
SelectNew(top_n_idx, sampled) ==
    LET RECURSIVE go(_, _)
        go(i, acc) ==
            IF i > Len(top_n_idx)
            THEN acc
            ELSE LET acc2 == IF top_n_idx[i] \notin sampled
                             THEN Append(acc, top_n_idx[i]) ELSE acc
                 IN IF Len(acc2) = N_SAMPLE_PER_ROUND THEN acc2 ELSE go(i + 1, acc2)
    IN go(1, <<>>)

InitEvo ==
    /\ NoCore
    /\ aatype_context_ids = {}
    /\ protoken_context_ids = {}
    /\ NoUtil
    /\ all_seqs = Range0(PoolSize)
    /\ sample_ids = {}
    /\ select_ids = <<>>
    /\ X_train = <<>>
    /\ round = 0
    /\ NoInterp
    /\ NoStructureModule
    /\ pc = "draw"

EvoUnchanged ==
    UNCHANGED <<embVars, convVars, infoVars, ctxVars, loopVars, utilVars,
                inputVars, all_seqs, interpVars, smVars>>

\* sample_ids = set(np.random.randint(0, len(all_seqs), N_SAMPLE_PER_ROUND));
\* select_seqs = [all_seqs[i] for i in sample_ids]
InitialDraw ==
    /\ pc = "draw"
    /\ \E draws \in [1 .. N_SAMPLE_PER_ROUND -> all_seqs] :
        /\ sample_ids' = Elems(draws)
        /\ select_ids' \in Orderings(Elems(draws))
    /\ pc' = "round"
    /\ UNCHANGED <<X_train, round>>
    /\ EvoUnchanged

\* for r in range(NROUND): X_train += ...; y_train += ...
AugmentTrainingSet ==
    /\ pc = "round"
    /\ IF round < NROUND
       THEN /\ X_train' = X_train \o select_ids
            /\ pc' = "fit"
       ELSE /\ pc' = "done"
            /\ UNCHANGED X_train
    /\ UNCHANGED <<sample_ids, select_ids, round>>
    /\ EvoUnchanged

\* model.fit, model.predict, the top-n statistics and the selection of the
\* next round's variants
ProposeVariants ==
    /\ pc = "fit"
    /\ \E top_n_idx \in ArgSorts :
        IF N_TOP_SEQS > Len(top_n_idx)
        THEN /\ pc' = "IndexError"
             /\ UNCHANGED <<sample_ids, select_ids, round>>
        ELSE /\ select_ids' = SelectNew(top_n_idx, sample_ids)
             /\ sample_ids' = sample_ids \cup Elems(select_ids')
             /\ round' = round + 1
             /\ pc' = "round"
    /\ UNCHANGED X_train
    /\ EvoUnchanged

NextEvo == InitialDraw \/ AugmentTrainingSet \/ ProposeVariants

SpecEvo == InitEvo /\ [][NextEvo]_vars

\* ------------------------------------------------------ latent interpolation
\* A latent is followed through two of its NRES x DIM_EMB components.  The
\* forward PF-ODE is deterministic and acts on each sample separately, so the
\* samples built from one structure share one latent, which is a free input.
\* A real number is the fraction [n, d] (d > 0).

\* ['MurD_close.pdb'] * (BATCH_SIZE // 2) + ['MurD_open.pdb'] * (BATCH_SIZE // 2)
PdbList(batch) ==
    [i \in 1 .. 2 * (batch \div 2) |->
        IF i <= batch \div 2 THEN "MurD_close.pdb" ELSE "MurD_open.pdb"]

\* np.linspace(start, stop, num, endpoint=False)
np_linspace_no_endpoint(start, stop, num) ==
    [i \in Range0(num) |-> [n |-> start * num + i * (stop - start), d |-> num]]

\* np.linspace(start, stop, num): start + i * step with
\* step = (stop - start) / (num - 1); num > 1
np_linspace(start, stop, num) ==
    [i \in Range0(num) |->
        [n |-> start * (num - 1) + i * (stop - start), d |-> num - 1]]

\* (1.0 - l) * a + l * b for vectors a, b: the numerators over l.d
Interpolant(l, a, b) ==
    [n |-> [k \in DOMAIN a |-> (l.d - l.n) * a[k] + l.n * b[k]], d |-> l.d]

\* the values a latent may take
LatentValues == { <<p, q>> : p \in {-7, 0, 7}, q \in {-7, 0, 7} }

InitInterp ==
    /\ NoCore
    /\ aatype_context_ids = {}
    /\ protoken_context_ids = {}
    /\ NoUtil
    /\ NoEvo
    /\ \E devices \in 1 .. MaxDevices : BATCH_SIZE = NSAMPLE_PER_DEVICE * devices
    /\ pdb_list = PdbList(BATCH_SIZE)
    /\ xT = None
    /\ xT_interpolation = None
    /\ NoStructureModule
    /\ pc = "solve_ode"

InterpUnchanged ==
    UNCHANGED <<embVars, convVars, infoVars, ctxVars, loopVars, utilVars,
                inputVars, evoVars, BATCH_SIZE, pdb_list, smVars>>

\* xT = pjit_solve_ode(0, scheduler.num_timesteps, 1.0, x0, ...)
SolveForwardODE ==
    /\ pc = "solve_ode"
    /\ \E closed \in LatentValues, open \in LatentValues :
        xT' = [k \in Range0(Len(pdb_list)) |->
                 IF pdb_list[k + 1] = "MurD_close.pdb" THEN closed ELSE open]
    /\ pc' = "interpolate"
    /\ UNCHANGED xT_interpolation
    /\ InterpUnchanged

\* the interpolation cell
Interpolate ==
    /\ pc = "interpolate"
    /\ IF Len0(xT) # BATCH_SIZE
       THEN /\ pc' = "TypeError"
            /\ UNCHANGED xT_interpolation
       ELSE LET lambda_arr == np_linspace(0, 1, BATCH_SIZE)
                xT_A == xT[0]
                xT_B == xT[BATCH_SIZE - 1]
            IN /\ xT_interpolation' =
                    [i \in Range0(BATCH_SIZE) |-> Interpolant(lambda_arr[i], xT_A, xT_B)]
               /\ pc' = "interpolated"
    /\ UNCHANGED xT
    /\ InterpUnchanged

NextInterp == SolveForwardODE \/ Interpolate

SpecInterp == InitInterp /\ [][NextInterp]_vars

\* --------------------------------------------------------- structure module
\* The IPA structure module is not among the notebooks' code; its steps follow
\* the specification's state machine, its layer counts the configuration.

\* num_layer of extended_structure_module, with frame_initializer's value
\* copied to all three
num_layer_all_eight ==
    [extended_structure_module |-> 8, frame_initializer |-> 8, fold_iteration |-> 8]

\* num_layer of extended_structure_module, frame_initializer and
\* predicted_lddt.fold_iteration
num_layer ==
    [extended_structure_module |-> 8, frame_initializer |-> 1, fold_iteration |-> 8]

\* stop_grad_ipa of the three instances
stop_grad_ipa ==
    [extended_structure_module |-> TRUE, frame_initializer |-> FALSE,
     fold_iteration |-> TRUE]

InitStructureModule ==
    /\ NoCore
    /\ aatype_context_ids = {}
    /\ protoken_context_ids = {}
    /\ NoUtil
    /\ NoEvo
    /\ NoInterp
    /\ module \in DOMAIN num_layer
    /\ layer = 0
    /\ trace = <<>>
    /\ pc = "initialize"

StructureModuleUnchanged ==
    UNCHANGED <<embVars, convVars, infoVars, ctxVars, loopVars, utilVars,
                inputVars, evoVars, interpVars, module>>

\* the step to take once l layers are complete
AfterLayer(l) == IF l < num_layer[module] THEN "attention" ELSE "final"

\* initialise the frames: identity, or a learned initialiser
InitializeFrames ==
    /\ pc = "initialize"
    /\ \E how \in {"identity", "learned"} :
        trace' = <<[step |-> "initialize", frames |-> how]>>
    /\ layer' = IF num_layer[module] > 0 THEN 1 ELSE 0
    /\ pc' = AfterLayer(0)
    /\ StructureModuleUnchanged

\* IPA layer: compute attention
ComputeAttention ==
    /\ pc = "attention"
    /\ trace' = Append(trace, [step |-> "attention", layer |-> layer])
    /\ pc' = "single"
    /\ UNCHANGED layer
    /\ StructureModuleUnchanged

\* IPA layer: update the single representation
UpdateSingle ==
    /\ pc = "single"
    /\ trace' = Append(trace, [step |-> "single", layer |-> layer])
    /\ pc' = "frame"
    /\ UNCHANGED layer
    /\ StructureModuleUnchanged

\* IPA layer: update the frames, optionally stopping the gradient on rotation
UpdateFrame ==
    /\ pc = "frame"
    /\ trace' = Append(trace, [step |-> "frame", layer |-> layer,
                               stop_gradient |-> stop_grad_ipa[module]])
    /\ layer' = IF layer < num_layer[module] THEN layer + 1 ELSE layer
    /\ pc' = AfterLayer(layer)
    /\ StructureModuleUnchanged

\* final: emit frames and single representation
EmitFinal ==
    /\ pc = "final"
    /\ trace' = Append(trace, [step |-> "final"])
    /\ pc' = "sidechain"
    /\ UNCHANGED layer
    /\ StructureModuleUnchanged

\* side-chain torsion prediction (independent head)
PredictSidechainTorsions ==
    /\ pc = "sidechain"
    /\ trace' = Append(trace, [step |-> "sidechain"])
    /\ pc' = "done"
    /\ UNCHANGED layer
    /\ StructureModuleUnchanged

NextStructureModule ==
    \/ InitializeFrames
    \/ ComputeAttention
    \/ UpdateSingle
    \/ UpdateFrame
    \/ EmitFinal
    \/ PredictSidechainTorsions

\* a forward pass is a sequential computation: it keeps taking its next step
SpecStructureModule ==
    InitStructureModule /\ [][NextStructureModule]_vars /\ WF_vars(NextStructureModule)

\* --------------------------------------------- relative positional encoding
\* The bucketing code is not among the notebooks' code; it follows the
\* specification (clip, exact buckets up to exact_distance, logarithmic
\* buckets beyond, the sign dropped) with the configured rel_pos values.  The
\* logarithmic part is the usual
\*   exact + floor(log(a / exact) / log(max / exact) * (num_buckets - exact)),
\* capped at num_buckets - 1, computed exactly on integers.

\* rel_pos with as many buckets as exact distances
rel_pos_few_buckets == [exact_distance |-> 16, num_buckets |-> 16, max_distance |-> 64]

\* the rel_pos section of the configuration
rel_pos == [exact_distance |-> 16, num_buckets |-> 32, max_distance |-> 64]

\* natural numbers beyond the machine word: digits in base 10000, lowest first
BigOne == <<1>>

\* u * m for a small m
BigMul(u, m) ==
    LET RECURSIVE go(_, _)
        go(i, carry) ==
            IF i > Len(u)
            THEN IF carry = 0 THEN <<>> ELSE <<carry>>
            ELSE <<(u[i] * m + carry) % 10000>> \o go(i + 1, (u[i] * m + carry) \div 10000)
    IN go(1, 0)

\* u * m^n
RECURSIVE BigMulPow(_, _, _)
BigMulPow(u, m, n) == IF n = 0 THEN u ELSE BigMulPow(BigMul(u, m), m, n - 1)

\* u <= w
BigLeq(u, w) ==
    IF Len(u) # Len(w)
    THEN Len(u) < Len(w)
    ELSE LET diff == { i \in 1 .. Len(u) : u[i] # w[i] }
         IN diff = {} \/ LET top == CHOOSE i \in diff : \A j \in diff : j <= i
                         IN u[top] < w[top]

\* floor(log(a / lo) / log(hi / lo) * n) for lo <= a: the most steps j with
\* lo^(n-j) * hi^j <= a^n
LogSteps(a, lo, hi, n) ==
    LET ok == { j \in 0 .. n :
                  BigLeq(BigMulPow(BigMulPow(BigOne, lo, n - j), hi, j),
                         BigMulPow(BigOne, a, n)) }
    IN CHOOSE j \in ok : \A m \in ok : m <= j

Abs(d) == IF d < 0 THEN -d ELSE d

Min(p, q) == IF p < q THEN p ELSE q

\* the bucket of signed difference d
rel_pos_bucket(d) ==
    LET clipped == IF d > rel_pos.max_distance THEN rel_pos.max_distance
                   ELSE IF d < -rel_pos.max_distance THEN -rel_pos.max_distance
                   ELSE d
        a == Abs(clipped)
    IN IF a <= rel_pos.exact_distance
       THEN a
       ELSE Min(rel_pos.num_buckets - 1,
                rel_pos.exact_distance
                    + LogSteps(a, rel_pos.exact_distance, rel_pos.max_distance,
                               rel_pos.num_buckets - rel_pos.exact_distance))

\* the residue indexes of three positions: consecutive, with gaps, and far
\* beyond max_distance
ResidueIndexes ==
    [0 .. 2 -> {0, 1, 15, 16, 17, 18, 30, 33, 63, 64, 65, 200}]

InitRelPos ==
    /\ NoCore
    /\ aatype_context_ids = {}
    /\ protoken_context_ids = {}
    /\ util = "rel_pos"
    /\ arg \in ResidueIndexes
    /\ out = None
    /\ back = None
    /\ NoEvo
    /\ NoInterp
    /\ NoStructureModule
    /\ pc = "call"

\* d[i, j] = residue_index[j] - residue_index[i], bucketed
RelPosEncoding ==
    /\ pc = "call"
    /\ util = "rel_pos"
    /\ out' = [i \in DOMAIN arg |-> [j \in DOMAIN arg |-> rel_pos_bucket(arg[j] - arg[i])]]
    /\ pc' = "returned"
    /\ UNCHANGED back
    /\ UtilUnchanged

NextRelPos == RelPosEncoding

SpecRelPos == InitRelPos /\ [][NextRelPos]_vars

\* ------------------------------------------------------------ token round trip
\* Embedding by array indexing (latent-space notebook, "concat sequence and
\* structure embeddings") followed by index_from_embedding.

\* the codebooks above, one whose ProToken rows 0 and 1 point the same way
\* with different norms, and one whose rows differ in direction and in norm
RoundTripCodebooks ==
    Codebooks \cup
    { [ptk |-> (0 :> <<6, 8>> @@ 1 :> <<3, 4>> @@ 2 :> <<0, 10>>),
       aa  |-> (0 :> <<-5>> @@ 1 :> <<5>> @@ 2 :> <<1>>)],
      [ptk |-> (0 :> <<3, 4>> @@ 1 :> <<0, 10>> @@ 2 :> <<-6, -8>>),
       aa  |-> (0 :> <<2>> @@ 1 :> <<-2>> @@ 2 :> <<7>>)] }

InitRoundTrip ==
    /\ \E cb \in RoundTripCodebooks : protoken_emb = cb.ptk /\ aatype_emb = cb.aa
    /\ protokens \in [Range0(NRES) -> DOMAIN protoken_emb]
    /\ aatypes \in [Range0(NRES) -> DOMAIN aatype_emb]
    /\ aatype_context_ids = {}
    /\ protoken_context_ids = {}
    /\ repaint_context = None
    /\ repaint_mask = None
    /\ x = None
    /\ seq_mask = None
    /\ ret = NoResult
    /\ x0 = NoResult
    /\ prev = NoPrev
    /\ NoLoop
    /\ NoExt
    /\ pc = "embed"

\* embedding = np.concatenate([protoken_emb[protokens], aatype_emb[aatype]],
\*                            axis=-1)
EmbedByIndexing ==
    /\ pc = "embed"
    /\ LET ptk == jnp_take(protoken_emb, protokens)
           aa == jnp_take(aatype_emb, aatypes)
       IN x' = [i \in DOMAIN ptk |-> ptk[i] \o aa[i]]
    /\ pc' = "convert"
    /\ UNCHANGED <<extVars, embVars, seq_mask, ret, x0, prev, infoVars, ctxVars,
                   loopVars>>

NextRoundTrip == EmbedByIndexing \/ IndexFromEmbedding

SpecRoundTrip == InitRoundTrip /\ [][NextRoundTrip]_vars

\* =================================================================== claims

\* p <= q for two distances of one vector
Le(p, q) == ~IsNaN(p) /\ ~IsNaN(q) /\ ~Lt(q, p)

PtkDist == protoken_emb_distance_fn(PtkPart(x), protoken_emb)

AaDist == aatype_emb_distance_fn(AaPart(x), aatype_emb)

ExampleCodebook == (0 :> <<10, 0>> @@ 1 :> <<-10, 0>>)

SameDist(p, q) == Le(p, q) /\ Le(q, p)

\* C2: the lookup is deterministic (a repeated conversion of the same
\* embedding returns the same indices), and when several codebook rows attain
\* the minimum distance the lowest index among them is returned, for the
\* protoken and for the aatype lookup.
C2_LowestIndexWins ==
    (pc = "convert" /\ ret # NoResult) =>
        /\ \A i \in Range0(NRES) :
            /\ \A j \in DOMAIN protoken_emb :
                 SameDist(PtkDist[i][j], PtkDist[i][ret.protoken_indexes[i]])
                    => ret.protoken_indexes[i] <= j
            /\ \A j \in DOMAIN aatype_emb :
                 SameDist(AaDist[i][j], AaDist[i][ret.aatype_indexes[i]])
                    => ret.aatype_indexes[i] <= j
        /\ (prev # NoPrev /\ prev.x = x) => prev.ret = ret

\* rows 1 and 2 attain the minimum, row 0 does not, and index 1 is returned:
\* in the protoken lookup at some position and in the aatype lookup at some
\* position
C2_Witness ==
    /\ pc = "convert" /\ ret # NoResult
    /\ Len0(protoken_emb) = 3 /\ Len0(aatype_emb) = 3
    /\ \E i \in Range0(NRES) :
        /\ SameDist(PtkDist[i][1], PtkDist[i][2])
        /\ ~SameDist(PtkDist[i][0], PtkDist[i][1])
        /\ ret.protoken_indexes[i] = 1
    /\ \E i \in Range0(NRES) :
        /\ SameDist(AaDist[i][1], AaDist[i][2])
        /\ ~SameDist(AaDist[i][0], AaDist[i][1])
        /\ ret.aatype_indexes[i] = 1

ZeroVec(v) == \A k \in DOMAIN v : v[k] = 0

\* C4: protoken_emb_distance_fn never yields NaN; when x or y is the all-zero
\* vector the distance is exactly 0, and index_from_embedding and clamp_x0_fn
\* return a valid protoken index for a zero-norm input: the lowest index, all
\* distances being equal.
C4_ZeroNormGuard ==
    pc = "convert" =>
        \A i \in Range0(NRES) :
            /\ \A j \in DOMAIN protoken_emb :
                /\ ~IsNaN(PtkDist[i][j])
                /\ (ZeroVec(PtkPart(x)[i]) \/ ZeroVec(protoken_emb[j]))
                      => PtkDist[i][j].num = 0
            /\ (ZeroVec(PtkPart(x)[i]) /\ ret # NoResult)
                  => ret.protoken_indexes[i] = 0
            /\ (ZeroVec(PtkPart(x)[i]) /\ x0 # NoResult)
                  => SubSeq(x0[i], 1, DIM_EMB_PTK) = protoken_emb[0]

\* a zero input vector, converted by both functions, with a zero codebook row
\* present as well
C4_Witness ==
    /\ pc = "convert" /\ ret # NoResult /\ x0 # NoResult
    /\ \E i \in Range0(NRES) : ZeroVec(PtkPart(x)[i]) /\ ret.protoken_indexes[i] = 0
    /\ \E i \in Range0(NRES) : ~ZeroVec(PtkPart(x)[i])
    /\ \E j \in DOMAIN protoken_emb : ZeroVec(protoken_emb[j])

\* C10: for two embeddings that agree on every unmasked position and differ
\* on padding positions, index_from_embedding and clamp_x0_fn return the same
\* result at every unmasked position.
C10_MaskIndependence ==
    (pc = "convert" /\ prev # NoPrev) =>
        \A i \in Range0(NRES) :
            seq_mask[i] =>
                /\ ret # NoResult =>
                    /\ ret.protoken_indexes[i] = prev.ret.protoken_indexes[i]
                    /\ ret.aatype_indexes[i] = prev.ret.aatype_indexes[i]
                /\ x0 # NoResult => x0[i] = prev.x0[i]

\* both conversions done on two embeddings that differ on a padding position,
\* with different results there
C10_Witness ==
    /\ pc = "convert" /\ prev # NoPrev /\ ret # NoResult /\ x0 # NoResult
    /\ \E i \in Range0(NRES) : seq_mask[i]
    /\ \E i \in Range0(NRES) :
        /\ ~seq_mask[i]
        /\ x[i] # prev.x[i]
        /\ ret.protoken_indexes[i] # prev.ret.protoken_indexes[i]
        /\ x0[i] # prev.x0[i]

InRange(ids, table) == \A i \in DOMAIN ids : ids[i] \in DOMAIN table

\* C5 (as claimed): an id outside [0, table size) given to
\* protoken_emb[protokens] or aatype_emb[aatypes] aborts with an indexing
\* error, so make_repaint_info returns a context only when every id is in
\* range.
C5_OutOfRangeIsFatal ==
    pc = "made" => (InRange(protokens, protoken_emb) /\ InRange(aatypes, aatype_emb))

\* C9: make_repaint_info returns a context of shape (seq_len, DIM_EMB) whose
\* row i is protoken_emb[protokens[i]] followed by aatype_emb[aatypes[i]], and
\* a mask of the same shape whose first DIM_EMB_PTK components of row i are
\* True exactly when i is in protoken_context_ids and whose last DIM_EMB_AA
\* components are True exactly when i is in aatype_context_ids.
C9_RepaintInfo ==
    pc = "made" =>
        /\ DOMAIN repaint_context = Range0(Len0(protokens))
        /\ DOMAIN repaint_mask = Range0(Len0(protokens))
        /\ \A i \in Range0(Len0(protokens)) :
            /\ Len(repaint_context[i]) = DIM_EMB
            /\ DOMAIN repaint_mask[i] = 1 .. DIM_EMB
            /\ (protokens[i] \in DOMAIN protoken_emb /\ aatypes[i] \in DOMAIN aatype_emb)
                  => repaint_context[i] = protoken_emb[protokens[i]] \o aatype_emb[aatypes[i]]
            /\ \A k \in 1 .. DIM_EMB_PTK :
                 repaint_mask[i][k] <=> (i \in protoken_context_ids)
            /\ \A k \in (DIM_EMB_PTK + 1) .. DIM_EMB :
                 repaint_mask[i][k] <=> (i \in aatype_context_ids)

\* a context built from valid ids with one residue in both lists, one in the
\* protoken list only... : a row that is all context, and a row that is none
C9_Witness ==
    /\ pc = "made"
    /\ InRange(protokens, protoken_emb) /\ InRange(aatypes, aatype_emb)
    /\ protoken_context_ids # aatype_context_ids
    /\ \E i \in DOMAIN repaint_mask : \A k \in 1 .. DIM_EMB : ~repaint_mask[i][k]
    /\ \E i \in DOMAIN repaint_mask :
        /\ repaint_mask[i][1] /\ ~repaint_mask[i][DIM_EMB]
        /\ repaint_context[i] # repaint_context[0]

\* C3: for the embedding x returned by run_infer, index_from_embedding gives
\* exactly one protoken index in [0, codebook size) and one aatype index in
\* [0, rows of aatype_emb) for each of the Nres positions, padding included.
C3_OneIdPerPosition ==
    pc = "done" =>
        /\ DOMAIN ret.protoken_indexes = Range0(NRES)
        /\ DOMAIN ret.aatype_indexes = Range0(NRES)
        /\ \A i \in Range0(NRES) :
            /\ ret.protoken_indexes[i] \in DOMAIN protoken_emb
            /\ ret.aatype_indexes[i] \in DOMAIN aatype_emb

\* a finished run with a padding position, whose ids differ from those of an
\* unmasked position
C3_Witness ==
    /\ pc = "done"
    /\ \E i, j \in Range0(NRES) :
        /\ ~seq_mask[i] /\ seq_mask[j]
        /\ ret.protoken_indexes[i] \in DOMAIN protoken_emb
        /\ ret.protoken_indexes[i] # ret.protoken_indexes[j]
        /\ ret.aatype_indexes[i] # ret.aatype_indexes[j]

\* the components of x that repaint_mask marks as context
Masked(i, k) == repaint_mask[i][k] = 1

\* C6 (as claimed): in the RePaint run_infer with a context and the default
\* repaint_time_steps, after every denoising call at every timestep the masked
\* components of x hold the context noised to that timestep before x is
\* denoised again or returned.
C6_ReinjectedAfterEveryDenoise ==
    (/\ notebook = "repaint"
     /\ repaint_context # None
     /\ call # NoCall
     /\ pc \in {"denoise", "final", "return"}) =>
        \A i \in Range0(NRES) : \A k \in 1 .. DIM_EMB :
            Masked(i, k) => origin[i][k] = [op |-> "q_sample", t |-> call.t]

\* C7 (as claimed): when protoken_context_resids covers every residue, the
\* protoken_indexes returned by run_infer equal the context ProTokens at
\* positions 0..seq_len-1, whatever the denoiser produces.
C7_StructureContextFixed ==
    (/\ pc = "done"
     /\ notebook = "repaint"
     /\ repaint_context # None
     /\ protoken_context_ids = DOMAIN protokens) =>
        \A i \in DOMAIN protokens : ret.protoken_indexes[i] = protokens[i]

\* C8 (as claimed): in both notebooks every denoising call at t > phasing_time
\* uses the unclamped denoiser and every denoising call at t < phasing_time,
\* the final call of each timestep included, uses the clamped denoiser.
C8_PhasedClamping ==
    call # NoCall =>
        /\ call.t > phasing_time => call.fn = "pjit_denoise_step"
        /\ call.t < phasing_time => call.fn = "pjit_denoise_step_clamped"

\* the residue axis of every array about to enter PT-DiT
ResidueAxes ==
    {Len0(x), Len0(seq_mask), Len0(residue_index)}
        \cup (IF notebook = "repaint"
              THEN {Len0(repaint_context), Len0(repaint_mask)} ELSE {})

\* C11: every array handed to PT-DiT (x, seq_mask, residue_index, the repaint
\* context and mask, the latent-space embedding) has a residue axis of length
\* NRES whenever seq_len <= NRES, and NRES is a multiple of 128 in every
\* notebook.
C11_PaddedToNRES ==
    /\ pc = "ready" => ResidueAxes = {NRES}
    /\ (data # None /\ data.seq_len <= NRES /\ pc # "load") => pc \in {"preprocess", "ready"}
    /\ NRES_repaint % 128 = 0
    /\ NRES_latent % 128 = 0
    /\ NRES_denovo % 128 = 0

\* a protein shorter than NRES, with a context, has been padded in the RePaint
\* notebook
C11_Witness ==
    /\ pc = "ready"
    /\ data # None
    /\ data.seq_len < NRES
    /\ notebook = "repaint"
    /\ Len0(repaint_context) = NRES
    /\ protoken_context_ids # {}

\* the dicts of l all have a value, and the values of each dict have one length
UniformDicts(l) ==
    \A j \in 1 .. Len(l) :
        /\ Len(l[j]) > 0
        /\ \A e \in 1 .. Len(l[j]) : Len(l[j][e].v) = Len(l[j][1].v)

\* n_d summed over the first j dicts of l
RECURSIVE SumLengths(_, _)
SumLengths(l, j) == IF j = 0 THEN 0 ELSE SumLengths(l, j - 1) + Len(l[j][1].v)

\* C12: for a list of dicts whose values have, per dict d, one length n_d,
\* flatten_list_of_dicts returns a list of length sum(n_d), ordered by dict and
\* then by element index, whose element for (d, i) has the keys of d, each
\* mapped to the i-th element of its value; [] maps to []; and
\* [{a: [1,2,3,4]}] maps to [{a:1}, {a:2}, {a:3}, {a:4}].
C12_FlattenListOfDicts ==
    /\ (util = "flatten_list_of_dicts" /\ pc = "returned" /\ UniformDicts(arg)) =>
        /\ out.raised = ""
        /\ Len(out.value) = SumLengths(arg, Len(arg))
        /\ \A j \in 1 .. Len(arg) : \A i \in 1 .. Len(arg[j][1].v) :
            LET el == out.value[SumLengths(arg, j - 1) + i]
            IN /\ Len(el) = Len(arg[j])
               /\ \A e \in 1 .. Len(arg[j]) :
                    el[e].k = arg[j][e].k /\ el[e].v = arg[j][e].v[i]
    /\ flatten_list_of_dicts(<<>>) = Returned(<<>>)
    /\ flatten_list_of_dicts(<< <<[k |-> "a", v |-> <<1, 2, 3, 4>>]>> >>)
         = Returned(<< <<[k |-> "a", v |-> 1]>>, <<[k |-> "a", v |-> 2]>>,
                       <<[k |-> "a", v |-> 3]>>, <<[k |-> "a", v |-> 4]>> >>)

\* two dicts of two keys with different, non-empty contents were flattened
C12_Witness ==
    /\ util = "flatten_list_of_dicts"
    /\ pc = "returned"
    /\ UniformDicts(arg)
    /\ Len(arg) = 2
    /\ Len(arg[1]) = 2
    /\ Len(arg[1][1].v) = 2
    /\ arg[1][1].v[1] # arg[1][1].v[2]
    /\ Len(arg[2][1].v) > 0
    /\ arg[2] # arg[1]

\* C13: resname_to_aatype_index(aatype_index_to_resname(a)) = a for every
\* sequence a of indexes in 0..19, aatype_index_to_resname(
\* resname_to_aatype_index(s)) = s for every string s over the 20 residue
\* letters, and both conversions preserve length and order.
C13_InverseConversions ==
    /\ (util = "aatype_index_to_resname" /\ pc = "converted"
            /\ \A i \in DOMAIN arg : arg[i] \in 0 .. 19) =>
        /\ Len(out.value) = Len0(arg)
        /\ \A i \in DOMAIN arg : out.value[i + 1] = restypes[arg[i] + 1]
        /\ back = Returned(arg)
    /\ (util = "aatype_index_to_resname" /\ pc = "returned"
            /\ \A i \in DOMAIN arg : arg[i] \in 0 .. 19) => out.raised = ""
    /\ (util = "resname_to_aatype_index" /\ pc = "converted"
            /\ \A i \in 1 .. Len(arg) : arg[i] \notin {"X", "-"}) =>
        /\ Len0(out.value) = Len(arg)
        /\ \A i \in 1 .. Len(arg) : restypes[out.value[i - 1] + 1] = arg[i]
        /\ back = Returned(arg)
    /\ (util = "resname_to_aatype_index" /\ pc = "returned"
            /\ \A i \in 1 .. Len(arg) : arg[i] \notin {"X", "-"}) => out.raised = ""

\* two different indexes, the second one being 1, went there and back
C13_Witness ==
    /\ util = "aatype_index_to_resname"
    /\ pc = "converted"
    /\ Len0(arg) = 2
    /\ arg[0] = 19
    /\ arg[1] = 1
    /\ back = Returned(arg)

\* C18: the amino-acid type is 22-way: aatype_index_to_resname yields a symbol
\* for every type index in 0..21 and resname_to_aatype_index an index for each
\* of the 22 type symbols, without raising.
C18_TwentyTwoTypes ==
    /\ (util = "aatype_index_to_resname" /\ pc = "returned"
            /\ \A i \in DOMAIN arg : arg[i] \in 0 .. 21) => out.raised = ""
    /\ (util = "resname_to_aatype_index" /\ pc = "returned") => out.raised = ""

\* the string spelled by the indexes of a parse_annotation call
SeqStr == aatype_index_to_resname(arg.aatype_indexes).value

\* region v occurs in s
OccursIn(v, s) == \E i \in 0 .. Len(s) : i + Len(v) <= Len(s) /\ SubSeq(s, i + 1, i + Len(v)) = v

\* C20: parse_annotation maps every key k of the annotation to the contiguous
\* index range [s, s+len(v)) of the first occurrence of its region v in the
\* sequence string, and the sequence restricted to that range spells v; if
\* some v does not occur, ValueError is raised and no dictionary is returned.
C20_ParseAnnotation ==
    (util = "parse_annotation" /\ pc = "returned") =>
        IF \A e \in 1 .. Len(arg.annotation_dict) : OccursIn(arg.annotation_dict[e].v, SeqStr)
        THEN /\ out.raised = ""
             /\ Len(out.value) = Len(arg.annotation_dict)
             /\ \A e \in 1 .. Len(arg.annotation_dict) :
                 LET v == arg.annotation_dict[e].v
                     ids == out.value[e].v
                 IN /\ out.value[e].k = arg.annotation_dict[e].k
                    /\ Len0(ids) = Len(v)
                    /\ \A i \in DOMAIN ids : ids[i] = ids[0] + i
                    /\ \A i \in DOMAIN ids : SeqStr[ids[i] + 1] = v[i + 1]
                    /\ Len(v) > 0 =>
                         \A b \in 0 .. (ids[0] - 1) : SubSeq(SeqStr, b + 1, b + Len(v)) # v
        ELSE out = Raised("ValueError")

\* a region that occurs twice was located, and so was a second region
C20_Witness ==
    /\ util = "parse_annotation"
    /\ pc = "returned"
    /\ out.raised = ""
    /\ Len(arg.annotation_dict) = 2
    /\ Len(arg.annotation_dict[1].v) = 2
    /\ Cardinality(Occurrences(SeqStr, arg.annotation_dict[1].v)) = 2
    /\ out.value[1].v[0] = 1
    /\ Len(arg.annotation_dict[2].v) = 1

\* C19: make_repaint_info raises AssertionError when len(protokens) differs
\* from len(aatypes), before any context or mask is built, and returns none;
\* when the lengths are equal the assertion does not fire.
C19_LengthMismatchIsFatal ==
    pc # "make_repaint_info" =>
        IF Len0(protokens) # Len0(aatypes)
        THEN pc = "AssertionError" /\ repaint_context = None /\ repaint_mask = None
        ELSE /\ pc = "made"
             /\ DOMAIN repaint_context = DOMAIN protokens
             /\ DOMAIN repaint_mask = DOMAIN protokens

\* a call with one amino acid less than ProTokens has raised
C19_Witness ==
    /\ pc = "AssertionError"
    /\ Len0(protokens) = NRES
    /\ Len0(aatypes) = NRES - 1

\* l is a prefix of m
IsPrefix(l, m) == Len(l) <= Len(m) /\ SubSeq(m, 1, Len(l)) = l

\* no pool index occurs twice in l
NoRepeat(l) == \A i, j \in 1 .. Len(l) : l[i] = l[j] => i = j

\* C14: in the directed-evolution loop every index selected at the end of a
\* round is absent from sample_ids as it stood, so no pool index enters the
\* training set twice, and sample_ids and the training set only grow.
C14_ProposedVariantsAreNew ==
    /\ [](NoRepeat(X_train) /\ Elems(X_train) \subseteq sample_ids)
    /\ [][/\ pc = "fit" => (Elems(select_ids') \cap sample_ids = {} /\ NoRepeat(select_ids'))
          /\ sample_ids \subseteq sample_ids'
          /\ IsPrefix(X_train, X_train')]_vars

\* the second round has added newly selected variants to the training set
C14_Witness ==
    /\ pc = "fit"
    /\ round = 1
    /\ Len(X_train) = 2 * N_SAMPLE_PER_ROUND
    /\ Cardinality(sample_ids) = 2 * N_SAMPLE_PER_ROUND

\* fraction [ns[k], d] is the number v
FracIs(ns, d, k, v) == ns[k] = d * v

\* C15: for i in 0..BATCH_SIZE-1, xT_interpolation[i] =
\* (1 - l_i) * xT_A + l_i * xT_B with l_i = i / (BATCH_SIZE - 1): the first
\* interpolant is the latent of the first input (closed conformation), the
\* last one the latent of the last input (open conformation), and the weights
\* l_i increase strictly.
C15_LinearInterpolation ==
    pc = "interpolated" =>
        /\ DOMAIN xT_interpolation = Range0(BATCH_SIZE)
        /\ \A i \in Range0(BATCH_SIZE) : \A k \in 1 .. 2 :
            xT_interpolation[i].n[k] * (BATCH_SIZE - 1) =
                xT_interpolation[i].d
                    * ((BATCH_SIZE - 1 - i) * xT[0][k] + i * xT[BATCH_SIZE - 1][k])
        /\ pdb_list[1] = "MurD_close.pdb"
        /\ pdb_list[BATCH_SIZE] = "MurD_open.pdb"
        /\ \A k \in 1 .. 2 :
            /\ FracIs(xT_interpolation[0].n, xT_interpolation[0].d, k, xT[0][k])
            /\ FracIs(xT_interpolation[BATCH_SIZE - 1].n,
                      xT_interpolation[BATCH_SIZE - 1].d, k, xT[BATCH_SIZE - 1][k])
        /\ \A i \in 1 .. (BATCH_SIZE - 1) :
            LET l == np_linspace(0, 1, BATCH_SIZE)
            IN l[i - 1].n * l[i].d < l[i].n * l[i - 1].d

\* two different end-point latents were interpolated
C15_Witness ==
    /\ pc = "interpolated"
    /\ xT[0] = <<-7, 0>>
    /\ xT[BATCH_SIZE - 1] = <<7, 7>>
    /\ xT_interpolation[1].n # xT_interpolation[2].n

\* the layer counts the claim states
ClaimedLayers ==
    [extended_structure_module |-> 8, frame_initializer |-> 1, fold_iteration |-> 8]

\* the steps of a complete pass of n layers, in order
StepsOfPass(n) ==
    [i \in 1 .. (3 * n + 3) |->
        IF i = 1 THEN "initialize"
        ELSE IF i = 3 * n + 2 THEN "final"
        ELSE IF i = 3 * n + 3 THEN "sidechain"
        ELSE IF (i - 2) % 3 = 0 THEN "attention"
        ELSE IF (i - 2) % 3 = 1 THEN "single" ELSE "frame"]

\* C16: the structure module runs, from frame initialisation, exactly num_layer
\* IPA iterations (8, 1 and 8 for the three instances), each one attention,
\* then single-representation update, then frame update; then it emits the
\* final frames and single representation and only then predicts side-chain
\* torsions; no step is repeated (each step extends the trace), there is no
\* early stop, and the terminal state is always reached.
C16_StructureModuleStateMachine ==
    /\ [](/\ Len(trace) <= 3 * ClaimedLayers[module] + 3
          /\ \A i \in 1 .. Len(trace) :
                /\ trace[i].step = StepsOfPass(ClaimedLayers[module])[i]
                /\ trace[i].step \in {"attention", "single", "frame"} =>
                        trace[i].layer = ((i - 2) \div 3) + 1
          /\ pc = "done" <=> Len(trace) = 3 * ClaimedLayers[module] + 3)
    /\ [][Len(trace') = Len(trace) + 1]_vars
    /\ <>(pc = "done")

\* the single-layer frame initialiser has completed its pass
C16_Witness ==
    /\ pc = "done"
    /\ module = "frame_initializer"
    /\ Len(trace) = 6

\* C17: with rel_pos = (exact_distance 16, num_buckets 32, max_distance 64),
\* for fixed i the bucket index does not decrease as
\* |residue_index[j] - residue_index[i]| increases up to max_distance and is
\* constant beyond it, every bucket index lies in [0, num_buckets), and a
\* positive and a negative difference of one size share their bucket.
C17_BucketMonotone ==
    (util = "rel_pos" /\ pc = "returned") =>
        \A i \in DOMAIN arg : \A j \in DOMAIN arg :
            /\ out[i][j] \in 0 .. (rel_pos.num_buckets - 1)
            /\ out[i][j] = out[j][i]
            /\ \A m \in DOMAIN arg :
                /\ Abs(arg[j] - arg[i]) <= Abs(arg[m] - arg[i]) => out[i][j] <= out[i][m]
                /\ (Abs(arg[j] - arg[i]) >= rel_pos.max_distance
                        /\ Abs(arg[m] - arg[i]) >= rel_pos.max_distance)
                     => out[i][j] = out[i][m]

\* one position has a neighbour at an exact distance, before it, and one in
\* the logarithmic range, after it, in different buckets
C17_Witness ==
    /\ util = "rel_pos"
    /\ pc = "returned"
    /\ arg[0] - arg[1] = 15
    /\ arg[2] - arg[1] = 32
    /\ out[1][0] = 15
    /\ out[1][2] = 24

\* the protein loaded by the notebook is longer than the model's NRES
TooLong == notebook # "denovo" /\ Len0(data.protokens) > NRES

\* C21: an input protein with seq_len > NRES is rejected with an error at the
\* padding step (reshape_tile_pad_x in the RePaint notebook, np.pad in the
\* latent-space notebook): the inputs never become ready for a model call,
\* no array is cut to NRES, and the only state the padding step leaves is the
\* error.
C21_TooLongIsRejected ==
    TooLong =>
        /\ pc \in {"load", "preprocess", "ValueError"}
        /\ x = None
        /\ pc = "preprocess" => Len0(seq_mask) = Len0(data.protokens)
        /\ pc = "ValueError" =>
              IF notebook = "repaint"
              THEN /\ Len0(seq_mask) = Len0(data.protokens)
                   /\ Len0(repaint_context) = Len0(data.protokens)
              ELSE seq_mask = None

\* both notebooks are checked by the same formula; the RePaint notebook has
\* passed make_repaint_info and stopped in reshape_tile_pad_x
C21_Witness ==
    /\ TooLong
    /\ notebook = "repaint"
    /\ pc = "ValueError"
    /\ Len0(repaint_mask) = NRES + 1

\* the latent-space notebook stopped in np.pad
C21_WitnessLatent ==
    /\ TooLong
    /\ notebook = "latent"
    /\ pc = "ValueError"

\* C22: the de-novo run_infer and the RePaint run_infer select the same kind
\* of denoiser (clamped or unclamped) for the equilibrium steps of every
\* timestep t in 1..num_diffusion_timesteps, t = phasing_time included:
\* whatever denoiser an equilibrium step of either notebook is called with at
\* t, it is the one the RePaint notebook selects at t and the one the de-novo
\* notebook selects at t.
C22_SamePhaseBoundary ==
    (pc = "noise" /\ call # NoCall /\ ~call.final) =>
        /\ call.t \in 1 .. num_diffusion_timesteps
        /\ call.fn = PhasedDenoiserRepaint(call.t)
        /\ call.fn = PhasedDenoiserDeNovo(call.t)

\* the arrays handed to run_infer by the RePaint notebook
TiledArrays ==
    <<input_dict.seq_mask, input_dict.residue_index,
      repaint_dict.repaint_context, repaint_dict.repaint_mask>>

\* C23: after reshape_tile_pad_x in the RePaint notebook, for every device
\* and sample, positions 0..seq_len-1 have seq_mask True, positions
\* seq_len..NRES-1 have seq_mask False and an all-zero repaint_mask row, and
\* all BATCH_SIZE samples carry identical seq_mask, residue_index,
\* repaint_context and repaint_mask.
C23_PaddingMaskedAndSamplesIdentical ==
    (notebook = "repaint" /\ pc = "ready") =>
        LET seq_len == Len0(data.protokens)
        IN /\ BATCH_SIZE = NDEVICES * NSAMPLE_PER_DEVICE
           /\ \A k \in 1 .. 4 :
                /\ DOMAIN TiledArrays[k] = Range0(NDEVICES)
                /\ \A d \in Range0(NDEVICES) :
                     /\ DOMAIN TiledArrays[k][d] = Range0(NSAMPLE_PER_DEVICE)
                     /\ \A s \in Range0(NSAMPLE_PER_DEVICE) :
                          /\ DOMAIN TiledArrays[k][d][s] = Range0(NRES)
                          /\ TiledArrays[k][d][s] = TiledArrays[k][0][0]
           /\ \A d \in Range0(NDEVICES), s \in Range0(NSAMPLE_PER_DEVICE) :
                /\ \A i \in Range0(seq_len) : input_dict.seq_mask[d][s][i] = TRUE
                /\ \A i \in seq_len .. (NRES - 1) :
                     /\ input_dict.seq_mask[d][s][i] = FALSE
                     /\ \A c \in 1 .. DIM_EMB :
                          repaint_dict.repaint_mask[d][s][i][c] = 0

\* a protein shorter than NRES whose ProTokens are all context, tiled over
\* two devices: the last sample has a masked residue and a padded one
C23_Witness ==
    /\ notebook = "repaint"
    /\ pc = "ready"
    /\ NDEVICES = 2
    /\ Len0(data.protokens) = NRES - 1
    /\ protoken_context_ids = Range0(NRES)
    /\ input_dict.seq_mask[1][NSAMPLE_PER_DEVICE - 1][NRES - 2] = TRUE
    /\ input_dict.seq_mask[1][NSAMPLE_PER_DEVICE - 1][NRES - 1] = FALSE
    /\ repaint_dict.repaint_mask[1][NSAMPLE_PER_DEVICE - 1][NRES - 2][1] = 1
    /\ repaint_dict.repaint_mask[1][NSAMPLE_PER_DEVICE - 1][NRES - 1] = ZeroRow

\* the rows of a codebook are pairwise distinct and none is the zero vector
DistinctNonZero(emb) ==
    /\ \A j \in DOMAIN emb : Dot(emb[j], emb[j]) > 0
    /\ \A j, k \in DOMAIN emb : j # k => emb[j] # emb[k]

\* u is a positive multiple of v (equality in the Cauchy-Schwarz inequality)
SameDirection(u, v) ==
    Dot(u, v) > 0 /\ Dot(u, v) * Dot(u, v) = Dot(u, u) * Dot(v, v)

\* no row of a codebook is a positive multiple of another
DistinctDirections(emb) ==
    \A j, k \in DOMAIN emb : j # k => ~SameDirection(emb[j], emb[k])

\* the ids were embedded by indexing and converted back
RoundTripDone == pc = "convert" /\ ret # NoResult

====
